---- MODULE Spec2Model ----
(***************************************************************************)
(* Warbler (src/app.py): a Flask request layer over users, messages,       *)
(* follow edges and like edges.  Every route handler is one action; the    *)
(* like toggle is two actions (its read and its write), because requests   *)
(* are served concurrently and the handler reads membership before it      *)
(* writes.  models.py and forms.py are not part of the sources: the        *)
(* schema (unique username/email, cascades, foreign keys) and              *)
(* User.signup / User.authenticate follow the written specification.       *)
(***************************************************************************)
EXTENDS Integers, Sequences, FiniteSets, Bags, TLC

VARIABLES
    users,       \* id -> [username, email, password]: the users table
    nextUserId,  \* next value of the users.id sequence
    messages,    \* id -> [user_id, timestamp]: the messages table
    nextMsgId,   \* next value of the messages.id sequence
    clock,       \* time of the latest Message.timestamp
    follows,     \* <<user_following_id, user_being_followed_id>> edges
    likes,       \* <<user_id, message_id>> edges
    session,     \* client -> session[CURR_USER_KEY], NoKey when absent
    pending,     \* like requests that have read and not yet written
    resp,        \* the response being returned, NoResp between requests
    signedUp,    \* history: id -> the username and password of its signup
    win          \* history: the like requests served in a row (see Observe)

db   == <<users, nextUserId, messages, nextMsgId, clock, follows, likes>>
vars == <<users, nextUserId, messages, nextMsgId, clock, follows, likes,
          session, pending, resp, signedUp, win>>

(* ------------------------------ bounds -------------------------------- *)
MaxUserId   == 2      \* signups explored from the empty database (SpecAuth)
MaxMsgId    == 1      \* messages posted in Spec
MaxInFlight == 1      \* like requests between read and write in Spec
RaceInFlight == 2     \* like requests between read and write in SpecLike
LikeMsgs    == 2      \* messages stored in SpecLike
HomeBase    == 99     \* messages already stored when SpecHome starts
HomeExtra   == 2      \* messages posted on top of HomeBase in SpecHome

(* --------------------------- program constants ------------------------ *)
HomeLimit == 100      \* .limit(100) of the homepage query

Clients   == {"c1", "c2"}
Usernames == {"a", "b"}
Emails    == {"e", "f"}
Passwords == {"p", "q"}

None  == 0            \* Python None for a user / message lookup
NoKey == 0            \* CURR_USER_KEY absent from the session

(* ------------------------------ responses ----------------------------- *)
Response(route, status, path, id, flash, arg, msgs) ==
    [route |-> route, status |-> status, path |-> path, id |-> id,
     flash |-> flash, arg |-> arg, messages |-> msgs]

NoResp == Response("", "", "", 0, "", "", <<>>)

Redirect(route, path, id, flash) == Response(route, "redirect", path, id, flash, "", <<>>)
Render(route, tpl, flash)        == Response(route, "render", tpl, 0, flash, "", <<>>)
\* a handler that raises, or returns None, ends in Flask's 500 response
ServerError(route)               == Response(route, "500", "", 0, "", "", <<>>)
NotFound(route)                  == Response(route, "404", "", 0, "", "", <<>>)
Unauthorized(route)              == Redirect(route, "/", 0, "Access unauthorized.")

(* ------------------------- session and g.user ------------------------- *)
\* add_user_to_g: User.query.get(session[CURR_USER_KEY]) or None
g_user(c) ==
    IF session[c] # NoKey
    THEN (IF session[c] \in DOMAIN users THEN session[c] ELSE None)
    ELSE None

do_login_stale(sess, c, id) == sess

do_login(sess, c, id) == [sess EXCEPT ![c] = id]

do_logout_keep(sess, c) == sess

do_logout(sess, c) == IF sess[c] # NoKey THEN [sess EXCEPT ![c] = NoKey] ELSE sess

(* ----------------------- models.py (from the spec) -------------------- *)
\* the stored password is a hash of the plaintext, never the plaintext
Hash(pw) == <<"bcrypt", pw>>

\* unique constraints on users.username and users.email
UniqueOK(tbl, id, un, em) ==
    \A j \in DOMAIN tbl \ {id} : tbl[j].username # un /\ tbl[j].email # em

\* User.authenticate: the user with that username if the password matches
authenticate(un, pw) ==
    LET hit == {i \in DOMAIN users : users[i].username = un
                                     /\ users[i].password = Hash(pw)}
    IN IF hit = {} THEN None ELSE CHOOSE i \in hit : TRUE

Restrict(f, S) == [x \in S |-> f[x]]

\* foreign keys of a like edge: its user and its message are stored rows
RowsExist(u, m) == u \in DOMAIN users /\ m \in DOMAIN messages

\* deleting a message removes the like edges that point at it
DeleteMessage(m) ==
    /\ messages' = Restrict(messages, DOMAIN messages \ {m})
    /\ likes' = {e \in likes : e[2] # m}

\* deleting a user removes their messages, like edges and follow edges
DeleteUser(u) ==
    LET gone == {m \in DOMAIN messages : messages[m].user_id = u} IN
    /\ users' = Restrict(users, DOMAIN users \ {u})
    /\ messages' = Restrict(messages, DOMAIN messages \ gone)
    /\ likes' = {e \in likes : e[1] # u /\ e[2] \notin gone}
    /\ follows' = {e \in follows : e[1] # u /\ e[2] # u}

(* ------------------------- signup / login / logout -------------------- *)
signup_login_anyway(c, un, pw, em, valid) ==
    /\ UNCHANGED <<messages, nextMsgId, clock, follows, likes, pending>>
    /\ IF valid
       THEN IF UniqueOK(users, None, un, em)
            THEN /\ users' = users @@ (nextUserId :> [username |-> un, email |-> em,
                                                      password |-> Hash(pw)])
                 /\ nextUserId' = nextUserId + 1
                 /\ signedUp' = signedUp @@ (nextUserId :> [username |-> un, password |-> pw])
                 /\ session' = do_login(session, c, nextUserId)
                 /\ resp' = Redirect("signup", "/", 0, "")
            ELSE /\ UNCHANGED <<users, nextUserId, signedUp>>
                 /\ session' = do_login(session, c,
                                  CHOOSE i \in DOMAIN users :
                                      users[i].username = un \/ users[i].email = em)
                 /\ resp' = Redirect("signup", "/", 0, "")
       ELSE /\ UNCHANGED <<users, nextUserId, signedUp, session>>
            /\ resp' = Render("signup", "users/signup.html", "")

signup(c, un, pw, em, valid) ==
    /\ UNCHANGED <<messages, nextMsgId, clock, follows, likes, pending>>
    /\ IF valid
       THEN IF UniqueOK(users, None, un, em)
            THEN /\ users' = users @@ (nextUserId :> [username |-> un, email |-> em,
                                                      password |-> Hash(pw)])
                 /\ nextUserId' = nextUserId + 1
                 /\ signedUp' = signedUp @@ (nextUserId :> [username |-> un, password |-> pw])
                 /\ session' = do_login(session, c, nextUserId)
                 /\ resp' = Redirect("signup", "/", 0, "")
            ELSE \* IntegrityError on commit
                 /\ UNCHANGED <<users, nextUserId, signedUp, session>>
                 /\ resp' = Render("signup", "users/signup.html", "Username already taken")
       ELSE /\ UNCHANGED <<users, nextUserId, signedUp, session>>
            /\ resp' = Render("signup", "users/signup.html", "")

login(c, un, pw, valid) ==
    /\ UNCHANGED <<db, pending, signedUp>>
    /\ IF valid
       THEN LET user == authenticate(un, pw) IN
            IF user # None
            THEN /\ session' = do_login(session, c, user)
                 /\ resp' = Response("login", "redirect", "/", 0, "Hello, %s!", un, <<>>)
            ELSE /\ UNCHANGED session
                 /\ resp' = Render("login", "users/login.html", "Invalid credentials.")
       ELSE /\ UNCHANGED session
            /\ resp' = Render("login", "users/login.html", "")

logout(c, valid) ==
    /\ UNCHANGED <<db, pending, signedUp>>
    /\ IF valid
       THEN /\ session' = do_logout(session, c)
            /\ resp' = Redirect("logout", "/login", 0, "Successfully logged out")
       ELSE /\ UNCHANGED session
            /\ resp' = ServerError("logout")

(* ----------------------------- user routes ---------------------------- *)
add_follow(c, follow_id, valid) ==
    /\ UNCHANGED <<users, nextUserId, messages, nextMsgId, clock, likes,
                   session, pending, signedUp>>
    /\ IF g_user(c) = None
       THEN /\ UNCHANGED follows
            /\ resp' = Unauthorized("add_follow")
       ELSE IF valid
       THEN IF follow_id \notin DOMAIN users
            THEN /\ UNCHANGED follows
                 /\ resp' = NotFound("add_follow")
            ELSE /\ follows' = follows \cup {<<g_user(c), follow_id>>}
                 /\ IF <<g_user(c), follow_id>> \in follows
                    THEN \* a second row for the same edge: accepted or rejected
                         \* by the follows table, the edge stays
                         resp' \in {Redirect("add_follow", "/users/<g.user.id>/following", 0, ""),
                                    ServerError("add_follow")}
                    ELSE resp' = Redirect("add_follow", "/users/<g.user.id>/following", 0, "")
       ELSE /\ UNCHANGED follows
            /\ resp' = ServerError("add_follow")

stop_following(c, follow_id, valid) ==
    /\ UNCHANGED <<users, nextUserId, messages, nextMsgId, clock, likes,
                   session, pending, signedUp>>
    /\ IF g_user(c) = None
       THEN /\ UNCHANGED follows
            /\ resp' = Unauthorized("stop_following")
       ELSE IF valid
       THEN IF <<g_user(c), follow_id>> \in follows
            THEN /\ follows' = follows \ {<<g_user(c), follow_id>>}
                 /\ resp' = Redirect("stop_following", "/users/<g.user.id>/following", 0, "")
            ELSE \* list.remove of an absent (or None) element raises
                 /\ UNCHANGED follows
                 /\ resp' = ServerError("stop_following")
       ELSE /\ UNCHANGED follows
            /\ resp' = ServerError("stop_following")

profile(c, un, em, pw, valid) ==
    /\ UNCHANGED <<nextUserId, messages, nextMsgId, clock, follows, likes,
                   session, pending, signedUp>>
    /\ IF g_user(c) = None
       THEN /\ UNCHANGED users
            /\ resp' = Unauthorized("profile")
       ELSE IF valid /\ authenticate(users[g_user(c)].username, pw) = None
       THEN /\ UNCHANGED users
            /\ resp' = Render("profile", "users/edit.html", "Unauthorized!")
       ELSE IF valid
       THEN IF UniqueOK(users, g_user(c), un, em)
            THEN /\ users' = [users EXCEPT ![g_user(c)].username = un,
                                           ![g_user(c)].email = em]
                 /\ resp' = Redirect("profile", "/users/<g.user.id>", 0, "")
            ELSE \* IntegrityError on commit, not caught
                 /\ UNCHANGED users
                 /\ resp' = ServerError("profile")
       ELSE /\ UNCHANGED users
            /\ resp' = Render("profile", "users/edit.html", "")

delete_user_stay_logged_in(c, valid) ==
    /\ UNCHANGED <<nextUserId, nextMsgId, clock, pending, signedUp>>
    /\ IF g_user(c) = None
       THEN /\ UNCHANGED <<users, messages, follows, likes, session>>
            /\ resp' = Unauthorized("delete_user")
       ELSE IF valid
       THEN /\ UNCHANGED session
            /\ DeleteUser(g_user(c))
            /\ resp' = Redirect("delete_user", "/signup", 0, "")
       ELSE /\ UNCHANGED <<users, messages, follows, likes, session>>
            /\ resp' = ServerError("delete_user")

delete_user(c, valid) ==
    /\ UNCHANGED <<nextUserId, nextMsgId, clock, pending, signedUp>>
    /\ IF g_user(c) = None
       THEN /\ UNCHANGED <<users, messages, follows, likes, session>>
            /\ resp' = Unauthorized("delete_user")
       ELSE IF valid
       THEN /\ session' = do_logout(session, c)
            /\ DeleteUser(g_user(c))
            /\ resp' = Redirect("delete_user", "/signup", 0, "")
       ELSE /\ UNCHANGED <<users, messages, follows, likes, session>>
            /\ resp' = ServerError("delete_user")

(* ---------------------------- message routes -------------------------- *)
messages_add(c, valid) ==
    /\ UNCHANGED <<users, nextUserId, follows, likes, session, pending, signedUp>>
    /\ IF g_user(c) = None
       THEN /\ UNCHANGED <<messages, nextMsgId, clock>>
            /\ resp' = Unauthorized("messages_add")
       ELSE IF valid
       THEN /\ messages' = messages @@ (nextMsgId :> [user_id |-> g_user(c),
                                                      timestamp |-> clock + 1])
            /\ nextMsgId' = nextMsgId + 1
            /\ clock' = clock + 1
            /\ resp' = Redirect("messages_add", "/users/<g.user.id>", 0, "")
       ELSE /\ UNCHANGED <<messages, nextMsgId, clock>>
            /\ resp' = Render("messages_add", "messages/new.html", "")

messages_destroy_unchecked(c, message_id, valid) ==
    /\ UNCHANGED <<users, nextUserId, nextMsgId, clock, follows, session,
                   pending, signedUp>>
    /\ IF g_user(c) = None
       THEN /\ UNCHANGED <<messages, likes>>
            /\ resp' = Unauthorized("messages_destroy")
       ELSE IF message_id \notin DOMAIN messages
            THEN /\ UNCHANGED <<messages, likes>>
                 /\ resp' = ServerError("messages_destroy")
            ELSE /\ DeleteMessage(message_id)
                 /\ resp' = Redirect("messages_destroy", "/users/<g.user.id>", 0, "")

messages_destroy(c, message_id, valid) ==
    /\ UNCHANGED <<users, nextUserId, nextMsgId, clock, follows, session,
                   pending, signedUp>>
    /\ IF g_user(c) = None
       THEN /\ UNCHANGED <<messages, likes>>
            /\ resp' = Unauthorized("messages_destroy")
       ELSE IF valid
       THEN IF message_id \notin DOMAIN messages
            THEN \* db.session.delete(None) raises
                 /\ UNCHANGED <<messages, likes>>
                 /\ resp' = ServerError("messages_destroy")
            ELSE /\ DeleteMessage(message_id)
                 /\ resp' = Redirect("messages_destroy", "/users/<g.user.id>", 0, "")
       ELSE /\ UNCHANGED <<messages, likes>>
            /\ resp' = Redirect("messages_destroy", "/", 0, "Action unauthorized!")

(* ------------------------------ like routes --------------------------- *)
\* handle_message_like_unlike ignores the helper's return value and
\* redirects to the referrer, or to "/" without one
LikeTarget == "referrer or /"

LikeRequest(u, m) == [user |-> u, msg |-> m, is_liked |-> <<u, m>> \in likes]

\* the response of a write whose row was changed underneath it depends on
\* the likes table: accepted silently or rejected
Outcome(clean, ok, route) == IF clean THEN {ok} ELSE {ok, ServerError(route)}

\* the handler up to and including its reads (lines 349-332): the session
\* check, the form, the liked ids, the message and the owner test
like_begin_own_allowed(c, message_id, valid) ==
    /\ UNCHANGED <<db, session, signedUp>>
    /\ IF g_user(c) = None
       THEN /\ UNCHANGED pending
            /\ resp' = Unauthorized("like")
       ELSE IF valid
       THEN IF message_id \notin DOMAIN messages
            THEN /\ UNCHANGED pending
                 /\ resp' = NotFound("like")
            ELSE /\ pending' = pending (+) SetToBag({LikeRequest(g_user(c), message_id)})
                 /\ UNCHANGED resp
       ELSE /\ UNCHANGED pending
            /\ resp' = ServerError("like")

like_begin(c, message_id, valid) ==
    /\ UNCHANGED <<db, session, signedUp>>
    /\ IF g_user(c) = None
       THEN /\ UNCHANGED pending
            /\ resp' = Unauthorized("like")
       ELSE IF valid
       THEN IF message_id \notin DOMAIN messages
            THEN /\ UNCHANGED pending
                 /\ resp' = NotFound("like")
            ELSE IF messages[message_id].user_id = g_user(c)
            THEN /\ UNCHANGED pending
                 /\ resp' = Redirect("like", LikeTarget, 0,
                                     "Sorry, you cannot like your own message!")
            ELSE /\ pending' = pending (+) SetToBag({LikeRequest(g_user(c), message_id)})
                 /\ UNCHANGED resp
       ELSE /\ UNCHANGED pending
            /\ resp' = ServerError("like")

\* a write that looks at the table again before it writes
like_commit_recheck(p) ==
    /\ BagIn(p, pending)
    /\ pending' = pending (-) SetToBag({p})
    /\ UNCHANGED <<users, nextUserId, messages, nextMsgId, clock, follows,
                   session, signedUp>>
    /\ IF ~RowsExist(p.user, p.msg)
       THEN /\ UNCHANGED likes
            /\ resp' = ServerError("like")
       ELSE IF <<p.user, p.msg>> \in likes
       THEN /\ likes' = likes \ {<<p.user, p.msg>>}
            /\ resp' = Redirect("like", LikeTarget, 0, "message unliked!")
       ELSE /\ likes' = likes \cup {<<p.user, p.msg>>}
            /\ resp' = Redirect("like", LikeTarget, 0, "message liked!")

\* a write that only ever appends
like_commit_append(p) ==
    /\ BagIn(p, pending)
    /\ pending' = pending (-) SetToBag({p})
    /\ UNCHANGED <<users, nextUserId, messages, nextMsgId, clock, follows,
                   session, signedUp>>
    /\ IF ~RowsExist(p.user, p.msg)
       THEN /\ UNCHANGED likes
            /\ resp' = ServerError("like")
       ELSE /\ likes' = likes \cup {<<p.user, p.msg>>}
            /\ resp' = Redirect("like", LikeTarget, 0, "message liked!")

\* the handler's write (lines 334-342 and 359-362): remove or append by the
\* membership read earlier, then commit
like_commit(p) ==
    /\ BagIn(p, pending)
    /\ pending' = pending (-) SetToBag({p})
    /\ UNCHANGED <<users, nextUserId, messages, nextMsgId, clock, follows,
                   session, signedUp>>
    /\ IF ~RowsExist(p.user, p.msg)
       THEN \* the row the write refers to is gone: nothing is stored
            /\ UNCHANGED likes
            /\ resp' \in IF p.is_liked
                         THEN Outcome(FALSE, Redirect("like", LikeTarget, 0,
                                                      "message unliked!"), "like")
                         ELSE {ServerError("like")}
       ELSE IF p.is_liked
       THEN /\ likes' = likes \ {<<p.user, p.msg>>}
            /\ resp' \in Outcome(<<p.user, p.msg>> \in likes,
                                 Redirect("like", LikeTarget, 0, "message unliked!"), "like")
       ELSE /\ likes' = likes \cup {<<p.user, p.msg>>}
            /\ resp' \in Outcome(<<p.user, p.msg>> \notin likes,
                                 Redirect("like", LikeTarget, 0, "message liked!"), "like")

(* -------------------------------- homepage ---------------------------- *)
RECURSIVE OrderAsc(_)
OrderAsc(S) ==
    IF S = {} THEN <<>>
    ELSE LET m == CHOOSE x \in S : \A y \in S : messages[x].timestamp <= messages[y].timestamp
         IN <<m>> \o OrderAsc(S \ {m})

\* order_by(Message.timestamp.desc())
RECURSIVE OrderDesc(_)
OrderDesc(S) ==
    IF S = {} THEN <<>>
    ELSE LET m == CHOOSE x \in S : \A y \in S : messages[x].timestamp >= messages[y].timestamp
         IN <<m>> \o OrderDesc(S \ {m})

\* .limit(n)
Limit(q, n) == IF Len(q) <= n THEN q ELSE SubSeq(q, 1, n)

following_ids(u) == {e[2] : e \in {f \in follows : f[1] = u}}

homepage(c) ==
    /\ UNCHANGED <<db, session, pending, signedUp>>
    /\ IF g_user(c) # None
       THEN LET shown == {m \in DOMAIN messages :
                             \/ messages[m].user_id \in following_ids(g_user(c))
                             \/ messages[m].user_id = g_user(c)}
            IN resp' = Response("homepage", "render", "home.html", 0, "", "",
                                Limit(OrderDesc(shown), HomeLimit))
       ELSE resp' = Render("homepage", "home-anon.html", "")

(* ------------------------------ after_request ----------------------- *)
\* add_header marks the response no-store and returns it: the response
\* leaves the application and the next one can be produced
add_header ==
    /\ resp # NoResp
    /\ resp' = NoResp
    /\ UNCHANGED <<db, session, pending, signedUp>>

(* ------------------- observed window of like requests ----------------- *)
\* win records the like requests served since the last other request, as
\* long as they are all by one user on one message and started with no
\* request in flight: ev is the order of their reads ("B") and writes
\* ("C"), base the like edges when the first of them arrived.
CleanWin(l) == [key |-> <<0, 0>>, ev |-> <<>>, base |-> l]
LostWin(l)  == [key |-> <<0, 0>>, ev |-> <<"X">>, base |-> l]
MaxWindow == 4

Reopen == win' = IF pending' = EmptyBag THEN CleanWin(likes') ELSE LostWin(likes')

Observe ==
    LET begun == BagToSet(pending' (-) pending)
        done  == BagToSet(pending (-) pending')
    IN IF begun # {}
       THEN LET p == CHOOSE x \in begun : TRUE IN
            IF win.key = <<p.user, p.msg>> /\ Len(win.ev) < MaxWindow
            THEN win' = [win EXCEPT !.ev = Append(@, "B")]
            ELSE IF pending = EmptyBag
            THEN win' = [key |-> <<p.user, p.msg>>, ev |-> <<"B">>, base |-> likes]
            ELSE Reopen
       ELSE IF done # {}
       THEN LET p == CHOOSE x \in done : TRUE IN
            IF win.key = <<p.user, p.msg>> /\ Len(win.ev) < MaxWindow
            THEN win' = [win EXCEPT !.ev = Append(@, "C")]
            ELSE Reopen
       ELSE Reopen

(* ---------------------------- specifications -------------------------- *)
\* a request is served once the previous response has left
Serve(handler) == resp = NoResp /\ handler /\ UNCHANGED win
Watch(handler) == resp = NoResp /\ handler /\ Observe

EmptyFn == [x \in {} |-> 0]

TwoUsers == [i \in {1, 2} |->
               IF i = 1 THEN [username |-> "a", email |-> "e", password |-> Hash("p")]
                        ELSE [username |-> "b", email |-> "f", password |-> Hash("q")]]
TwoSignedUp == [i \in {1, 2} |->
               IF i = 1 THEN [username |-> "a", password |-> "p"]
                        ELSE [username |-> "b", password |-> "q"]]

\* Spec: two registered users, nobody logged in, nothing posted; every
\* route that works on the social graph
Init ==
    /\ users = TwoUsers /\ signedUp = TwoSignedUp /\ nextUserId = 3
    /\ messages = EmptyFn /\ nextMsgId = 1 /\ clock = 0
    /\ follows = {} /\ likes = {}
    /\ session = [c \in Clients |-> NoKey]
    /\ pending = EmptyBag /\ resp = NoResp /\ win = CleanWin({})

Next ==
    \/ \E c \in Clients, un \in Usernames, pw \in Passwords :
          Serve(login(c, un, pw, TRUE))
    \/ \E c \in Clients :
          Serve(logout(c, TRUE))
    \/ \E c \in Clients, f \in 1..2, valid \in BOOLEAN :
          Serve(add_follow(c, f, valid))
    \/ \E c \in Clients, f \in 1..2, valid \in BOOLEAN :
          Serve(stop_following(c, f, valid))
    \/ \E c \in Clients, un \in Usernames, em \in Emails, pw \in Passwords :
          Serve(profile(c, un, em, pw, TRUE))
    \/ \E c \in Clients :
          Serve(profile(c, "a", "e", "p", FALSE))
    \/ \E c \in Clients, valid \in BOOLEAN :
          Serve(delete_user(c, valid))
    \/ \E c \in Clients, valid \in BOOLEAN :
          Serve(nextMsgId <= MaxMsgId /\ messages_add(c, valid))
    \/ \E c \in Clients, m \in 1..MaxMsgId, valid \in BOOLEAN :
          Serve(messages_destroy(c, m, valid))
    \/ \E c \in Clients, m \in 1..MaxMsgId, valid \in BOOLEAN :
          Serve(BagCardinality(pending) < MaxInFlight /\ like_begin(c, m, valid))
    \/ \E p \in BagToSet(pending) :
          Serve(like_commit(p))
    \/ add_header /\ UNCHANGED win

Spec == Init /\ [][Next]_vars

\* SpecAuth: the empty database; accounts are created, renamed, used and
\* deleted
InitAuth ==
    /\ users = EmptyFn /\ signedUp = EmptyFn /\ nextUserId = 1
    /\ messages = EmptyFn /\ nextMsgId = 1 /\ clock = 0
    /\ follows = {} /\ likes = {}
    /\ session = [c \in Clients |-> NoKey]
    /\ pending = EmptyBag /\ resp = NoResp /\ win = CleanWin({})

NextAuth ==
    \/ \E c \in Clients, un \in Usernames, pw \in Passwords, em \in Emails, valid \in BOOLEAN :
          Serve(nextUserId <= MaxUserId /\ signup(c, un, pw, em, valid))
    \/ \E c \in Clients, un \in Usernames, pw \in Passwords, valid \in BOOLEAN :
          Serve(login(c, un, pw, valid))
    \/ \E c \in Clients, valid \in BOOLEAN :
          Serve(logout(c, valid))
    \/ \E c \in Clients, un \in Usernames, em \in Emails, pw \in Passwords, valid \in BOOLEAN :
          Serve(profile(c, un, em, pw, valid))
    \/ \E c \in Clients, valid \in BOOLEAN :
          Serve(delete_user(c, valid))
    \/ add_header /\ UNCHANGED win

SpecAuth == InitAuth /\ [][NextAuth]_vars

\* SpecLike: user 1 is logged in from both clients and user 2 has posted;
\* like requests overlap
InitLike ==
    /\ users = TwoUsers /\ signedUp = TwoSignedUp /\ nextUserId = 3
    /\ messages = [m \in {1} |-> [user_id |-> 2, timestamp |-> 1]]
    /\ nextMsgId = 2 /\ clock = 1
    /\ follows = {} /\ likes = {}
    /\ session \in {s \in [Clients -> {1, 2}] : s["c1"] = 1}
    /\ pending = EmptyBag /\ resp = NoResp /\ win = CleanWin({})

NextLike ==
    \/ \E c \in Clients, m \in 1..LikeMsgs, valid \in BOOLEAN :
          Watch(BagCardinality(pending) < RaceInFlight /\ like_begin(c, m, valid))
    \/ \E p \in BagToSet(pending) :
          Watch(like_commit(p))
    \/ \E c \in Clients :
          Watch(nextMsgId <= LikeMsgs /\ messages_add(c, TRUE))
    \/ \E c \in Clients, m \in 1..LikeMsgs :
          Watch(messages_destroy(c, m, TRUE))
    \/ add_header /\ UNCHANGED win

SpecLike == InitLike /\ [][NextLike]_vars

\* SpecHome: a long timeline is already stored, alternating between the
\* two users
InitHome ==
    /\ users = TwoUsers /\ signedUp = TwoSignedUp /\ nextUserId = 3
    /\ messages = [m \in 1..HomeBase |->
                     [user_id |-> IF m % 2 = 0 THEN 2 ELSE 1, timestamp |-> m]]
    /\ nextMsgId = HomeBase + 1 /\ clock = HomeBase
    /\ follows = {} /\ likes = {}
    /\ session = [c \in Clients |-> IF c = "c1" THEN 1 ELSE 2]
    /\ pending = EmptyBag /\ resp = NoResp /\ win = CleanWin({})

NextHome ==
    \/ \E c \in Clients, f \in 1..2 :
          Serve(add_follow(c, f, TRUE))
    \/ \E c \in Clients, f \in 1..2 :
          Serve(stop_following(c, f, TRUE))
    \/ \E c \in Clients :
          Serve(nextMsgId <= HomeBase + HomeExtra /\ messages_add(c, TRUE))
    \/ \E c \in Clients :
          Serve(logout(c, TRUE))
    \/ \E c \in Clients :
          Serve(homepage(c))
    \/ add_header /\ UNCHANGED win

SpecHome == InitHome /\ [][NextHome]_vars

(* ================================ claims ============================== *)
Stored == <<users, messages, follows, likes>>

MutatingRoutes == {"add_follow", "stop_following", "profile", "delete_user",
                   "messages_add", "messages_destroy", "like"}

\* a request to one of the seven routes that write on behalf of a user
MutatingRequest(c, valid) ==
    \/ resp'.route = "add_follow" /\ \E f \in 1..2 : add_follow(c, f, valid)
    \/ resp'.route = "stop_following" /\ \E f \in 1..2 : stop_following(c, f, valid)
    \/ resp'.route = "profile"
       /\ \E un \in Usernames, em \in Emails, pw \in Passwords : profile(c, un, em, pw, valid)
    \/ resp'.route = "delete_user" /\ delete_user(c, valid)
    \/ resp'.route = "messages_add" /\ messages_add(c, valid)
    \/ resp'.route = "messages_destroy"
       /\ \E m \in 1..MaxMsgId : messages_destroy(c, m, valid)
    \/ \E m \in 1..MaxMsgId : like_begin(c, m, valid)

\* C1: a request to a mutating route changes users, messages, follow edges
\* or like edges (and schedules no write) only if it has a logged-in user
\* and its form, anti-forgery token included, validates; without a
\* logged-in user it is redirected to / with the flash "Access
\* unauthorized." and nothing stored changes.  Stored data changes in no
\* other way than through such a request or the write of a like request
\* that passed both checks.
C1_MutationsAreGated ==
    [][ /\ \A c \in Clients, valid \in BOOLEAN :
              ((g_user(c) = None \/ ~valid) /\ MutatingRequest(c, valid))
              => /\ UNCHANGED <<Stored, pending>>
                 /\ g_user(c) = None =>
                       /\ resp'.status = "redirect" /\ resp'.path = "/"
                       /\ resp'.flash = "Access unauthorized."
        /\ Stored' # Stored =>
              \/ \E c \in Clients : g_user(c) # None /\ MutatingRequest(c, TRUE)
              \/ \E p \in BagToSet(pending) : like_commit(p)
        /\ \A p \in BagToSet(pending' (-) pending) :
              \E c \in Clients : g_user(c) = p.user /\ like_begin(c, p.msg, TRUE)
      ]_vars

\* C1 witness: somebody without a session was turned away from a mutating
\* route while there was stored data to protect
C1_Witness ==
    /\ resp.route \in MutatingRoutes
    /\ resp.flash = "Access unauthorized."
    /\ DOMAIN messages # {} /\ follows # {}

\* C2: a message that disappears is removed by a delete request of its
\* owner or by its owner's account deletion; a delete request by anybody
\* else leaves the messages unchanged.
C2_OnlyOwnerDeletes ==
    [][ \A m \in DOMAIN messages \ DOMAIN messages' :
            \E c \in Clients :
                /\ g_user(c) = messages[m].user_id
                /\ delete_user(c, TRUE) \/ messages_destroy(c, m, TRUE)
      ]_vars

NoOwnLike == \A e \in likes : e[2] \in DOMAIN messages => messages[e[2]].user_id # e[1]

\* C3: a valid like request by the owner of the message leaves the like
\* edges unchanged, schedules no write and flashes the rejection; no like
\* edge ever joins a user to a message of their own.
C3_NoOwnLike ==
    /\ []NoOwnLike
    /\ [][ \A c \in Clients, m \in DOMAIN messages :
              (g_user(c) # None /\ messages[m].user_id = g_user(c)
                  /\ like_begin(c, m, TRUE))
              => /\ UNCHANGED <<likes, pending>>
                 /\ resp'.flash = "Sorry, you cannot like your own message!"
         ]_vars

\* C3 witness: an own-message like was rejected while like edges exist
C3_Witness ==
    /\ resp.flash = "Sorry, you cannot like your own message!"
    /\ likes # {}

Flip(l, key) == IF key \in l THEN l \ {key} ELSE l \cup {key}

\* C4: one like request served alone flips the membership of its own edge
\* and changes no other like edge; two of them by the same user on the
\* same message, served one after the other, restore the like edges.
C4_ToggleRoundTrip ==
    /\ win.ev = <<"B", "C">> => likes = Flip(win.base, win.key)
    /\ win.ev = <<"B", "C", "B", "C">> => likes = win.base

\* C4 witness: a liked message was unliked and liked again
C4_Witness ==
    /\ win.ev = <<"B", "C", "B", "C">>
    /\ win.key \in win.base
    /\ Cardinality(win.base) > 1

\* C10: two like requests by one user on one message that both read the
\* membership before either writes leave the edge flipped once, which no
\* serial order of the two produces (serially the like edges are restored).
C10_LostUpdate ==
    win.ev = <<"B", "B", "C", "C">> =>
        /\ likes = Flip(win.base, win.key)
        /\ likes # win.base

\* C10 witness: both requests read, then both wrote
C10_Witness ==
    /\ win.ev = <<"B", "B", "C", "C">>
    /\ pending = EmptyBag

UniqueUsernames ==
    \A i, j \in DOMAIN users : users[i].username = users[j].username => i = j

\* C5: a valid signup with a username that is already stored adds no user,
\* leaves the session as it was, and re-renders the signup form with the
\* flash "Username already taken"; no two stored users share a username.
C5_DuplicateSignup ==
    /\ []UniqueUsernames
    /\ [][ \A c \in Clients, un \in Usernames, pw \in Passwords, em \in Emails :
              ((\E i \in DOMAIN users : users[i].username = un)
                  /\ signup(c, un, pw, em, TRUE))
              => /\ UNCHANGED <<users, session>>
                 /\ resp' = Render("signup", "users/signup.html", "Username already taken")
         ]_vars

\* C5 witness: a duplicate signup was turned down for a client that is
\* logged in as nobody
C5_Witness ==
    /\ resp.flash = "Username already taken"
    /\ \E c \in Clients : session[c] = NoKey

SignupCreates ==
    \A c \in Clients, un \in Usernames, pw \in Passwords, em \in Emails :
        (UniqueOK(users, None, un, em) /\ signup(c, un, pw, em, TRUE))
        => /\ DOMAIN users' = DOMAIN users \cup {nextUserId}
           /\ nextUserId \notin DOMAIN users
           /\ users'[nextUserId].username = un
           /\ session'[c] = nextUserId

BadLoginKeepsSession ==
    \A c \in Clients, un \in Usernames, pw \in Passwords, valid \in BOOLEAN :
        ((~\E i \in DOMAIN users : users[i].username = un /\ signedUp[i].password = pw)
            /\ login(c, un, pw, valid))
        => UNCHANGED session

\* C7 as written: a login with the username and password of the signup
\* succeeds for as long as the account exists.
C7_SignupCredentialsKeepWorking ==
    [][ \A c \in Clients, i \in DOMAIN users :
            login(c, signedUp[i].username, signedUp[i].password, TRUE)
            => session'[c] = i
      ]_vars

\* C7 amended: a valid signup with an unused username and email creates
\* the user and logs the session in as that user; a later login with the
\* signup's username and password logs the session in as that user as long
\* as the account exists and still has the username it signed up with
\* (POST /users/profile can change it); a login with credentials that
\* match no account leaves the session unchanged.
C7_CurrentCredentialsWork ==
    [][ /\ SignupCreates
        /\ BadLoginKeepsSession
        /\ \A c \in Clients, i \in DOMAIN users :
              (users[i].username = signedUp[i].username
                  /\ login(c, signedUp[i].username, signedUp[i].password, TRUE))
              => session'[c] = i
      ]_vars

\* C7 witness: a user other than the one who signed up last has logged in
\* again on a client while the other client belongs to somebody else
C7_Witness ==
    /\ resp.route = "login" /\ resp.status = "redirect"
    /\ \E c \in Clients :
          /\ session[c] \in DOMAIN users
          /\ users[session[c]].username = resp.arg
          /\ session[c] + 1 < nextUserId

NoOrphans ==
    /\ \A m \in DOMAIN messages : messages[m].user_id \in DOMAIN users
    /\ \A e \in likes : e[1] \in DOMAIN users /\ e[2] \in DOMAIN messages
    /\ \A e \in follows : e[1] \in DOMAIN users /\ e[2] \in DOMAIN users

\* C6: after a valid account deletion by logged-in user u no message of u,
\* no like edge by u or on a message of u, and no follow edge from or to u
\* is left, and the deleting session no longer holds u's id; every message,
\* like edge and follow edge refers to stored users and messages.
C6_DeleteCascades ==
    /\ []NoOrphans
    /\ [][ \A c \in Clients :
              (g_user(c) # None /\ delete_user(c, TRUE))
              => LET u == g_user(c)
                     mine == {m \in DOMAIN messages : messages[m].user_id = u}
                 IN /\ u \notin DOMAIN users'
                    /\ DOMAIN messages' \cap mine = {}
                    /\ \A e \in likes' : e[1] # u /\ e[2] \notin mine
                    /\ \A e \in follows' : e[1] # u /\ e[2] # u
                    /\ session'[c] # u
         ]_vars

\* C6 witness: an account with a message was deleted while a like request
\* was in flight and the other user remains
C6_Witness ==
    /\ resp.route = "delete_user" /\ resp.path = "/signup"
    /\ Cardinality(DOMAIN users) = 1
    /\ nextMsgId > 1 /\ DOMAIN messages = {}
    /\ pending # EmptyBag

\* C9 as written: no follow edge joins a user to themselves.
C9_NoSelfFollow == \A e \in follows : e[1] # e[2]

Range(q) == {q[i] : i \in 1..Len(q)}

HomeOK(u, shown) ==
    LET mine == {m \in DOMAIN messages :
                    \/ messages[m].user_id = u
                    \/ <<u, messages[m].user_id>> \in follows}
        listed == Range(shown)
        oldest == IF shown = <<>> THEN 0 ELSE messages[shown[Len(shown)]].timestamp
    IN /\ Len(shown) <= HomeLimit
       /\ Cardinality(listed) = Len(shown)
       /\ listed \subseteq mine
       /\ \A i \in 1..(Len(shown) - 1) :
             messages[shown[i]].timestamp >= messages[shown[i + 1]].timestamp
       /\ Len(shown) = IF Cardinality(mine) < HomeLimit THEN Cardinality(mine) ELSE HomeLimit
       /\ \A m \in mine \ listed : oldest >= messages[m].timestamp

====
